---- MODULE Spec2Model ----
(***************************************************************************)
(* Model of the match / tournament CRUD backend (src/main.py,              *)
(* src/models.py): the Match and Tournament tables, the request model      *)
(* MatchCreate, the JSON / ISO-8601 codec used for list and timestamp      *)
(* columns, and the handlers create_match, update_match, create_tournament.*)
(*                                                                         *)
(* Conventions.  An Optional value is <<>> (None) or <<v>> (a value).      *)
(* A text (str) that the codec produces is a sequence of one-character     *)
(* strings.  A datetime is [t |-> minutes, aware |-> has a UTC offset].    *)
(* The source's in-progress label is Cyrillic; it is written "Idet" here   *)
(* because the module is ASCII.                                            *)
(***************************************************************************)
EXTENDS Integers, Sequences, FiniteSets, TLC

\* ------------------------------------------------------------------ bounds
MaxMatches == 1
MaxTournaments == 1
MaxNow == 11
NumRequests == 2

\* ------------------------------------------------------- program constants
\* timedelta(minutes=5)
BufferMinutes == 5

\* The clock's first reading: late enough that "ten minutes ago" is a time.
NowInit == 2 * BufferMinutes

None == <<>>
Some(v) == <<v>>

InProgress == "Idet"
Scheduled == "Scheduled"

\* ------------------------------------------------------------------ fields
RequiredFields ==
    {"team1", "team2", "date", "location", "status", "score1", "score2"}

StatFields ==
    {"shotsOnGoal1", "shotsOnGoal2", "shotsOnTarget1", "shotsOnTarget2",
     "yellowCards1", "yellowCards2", "redCards1", "redCards2",
     "corners1", "corners2", "possession1", "possession2"}

ListFields ==
    {"goalScorers1", "goalScorers2", "yellowCardPlayers1",
     "yellowCardPlayers2", "redCardPlayers1", "redCardPlayers2"}

TextFields == {"match_type", "referee", "stage"}

MatchCreateFields ==
    RequiredFields \cup StatFields \cup ListFields \cup TextFields
        \cup {"tournament_id", "start_time", "duration"}

MatchFields == MatchCreateFields \cup {"id"}

\* The default of a MatchCreate field that the request does not set.
FieldDefault(f) == IF f \in StatFields THEN Some(0) ELSE None

\* ------------------------------------------------------------------- codec
\* Characters of player names: plain ASCII, the two characters JSON must
\* escape, and one non-ASCII character (named by its code point).
NonAscii == "U+044F"
NonAsciiHex == <<"0", "4", "4", "f">>

\* json.dumps of one character of a str (ensure_ascii is the default).
EscapeChar(c) ==
    IF c = "\"" THEN <<"\\", "\"">>
    ELSE IF c = "\\" THEN <<"\\", "\\">>
    ELSE IF c = NonAscii THEN <<"\\", "u">> \o NonAsciiHex
    ELSE <<c>>

RECURSIVE EscapeStr(_)
EscapeStr(s) ==
    IF s = <<>> THEN <<>> ELSE EscapeChar(Head(s)) \o EscapeStr(Tail(s))

\* json.dumps of a str: the escaped characters between double quotes.
DumpStr(s) == <<"\"">> \o EscapeStr(s) \o <<"\"">>

RECURSIVE DumpItems(_)
DumpItems(l) ==
    IF Len(l) = 1 THEN DumpStr(l[1])
    ELSE DumpStr(Head(l)) \o <<",", " ">> \o DumpItems(Tail(l))

\* json.dumps of a list of str: "[" items separated by ", " "]".
json_dumps(l) ==
    IF l = <<>> THEN <<"[", "]">> ELSE <<"[">> \o DumpItems(l) \o <<"]">>

\* json.loads, as a scanner over the text.  ParseStr reads the characters of
\* a string up to its closing quote and returns the string and the rest.
RECURSIVE ParseStr(_, _)
ParseStr(txt, acc) ==
    IF txt[1] = "\"" THEN [val |-> acc, rest |-> Tail(txt)]
    ELSE IF txt[1] = "\\"
         THEN IF txt[2] = "u"
              THEN ParseStr(SubSeq(txt, 7, Len(txt)), Append(acc, NonAscii))
              ELSE ParseStr(SubSeq(txt, 3, Len(txt)), Append(acc, txt[2]))
         ELSE ParseStr(Tail(txt), Append(acc, txt[1]))

RECURSIVE ParseItems(_, _)
ParseItems(txt, acc) ==
    IF txt[1] = "]" THEN acc
    ELSE IF txt[1] \in {",", " "} THEN ParseItems(Tail(txt), acc)
    ELSE LET r == ParseStr(Tail(txt), <<>>)
         IN  ParseItems(r.rest, Append(acc, r.val))

json_loads(txt) == ParseItems(Tail(txt), <<>>)

\* Python truthiness of an Optional[List[str]]: None and [] are falsy.
Truthy(v) == v # None /\ v[1] # <<>>

\* EncodeList without the truthiness test: json.dumps(x) if x is not None.
EncodeListNotNone(v) == IF v # None THEN Some(json_dumps(v[1])) ELSE None

\* Encode of a list sub-field: json.dumps(x) if x else None.
EncodeList(v) == IF Truthy(v) THEN Some(json_dumps(v[1])) ELSE None

\* Decode of a list column: json.loads(x) if x else None.
DecodeList(col) ==
    IF col # None /\ col[1] # <<>> THEN Some(json_loads(col[1])) ELSE None

\* datetime.isoformat(): the instant, then the offset of an aware datetime.
isoformat(dt) == IF dt.aware THEN <<dt.t, "+00:00">> ELSE <<dt.t>>

\* pydantic's parse of an ISO-8601 text into a datetime.
parse_datetime(txt) == [t |-> txt[1], aware |-> Len(txt) = 2]

\* datetime.now(pytz.UTC)
UtcNow(clock) == [t |-> clock, aware |-> TRUE]

\* ----------------------------------------------------------- request model
\* A request body is a function from the fields it supplies to their values.
\* FastAPI builds the MatchCreate model from it and answers 422 itself when a
\* field without a default is missing.
ValidRequest(p) == RequiredFields \subseteq DOMAIN p

\* The MatchCreate instance: the supplied values, defaults for the rest.
Model(p) ==
    [f \in MatchCreateFields |->
        IF f \in DOMAIN p THEN p[f] ELSE FieldDefault(f)]

\* --------------------------------------------------------------- responses
\* MatchPydantic(**db_match.dict()): the row's columns given to the response
\* model as they are stored.  A list column holding text is not a list, so
\* the model's validation raises unless every list column is null.
ResponseValid(row) == \A f \in ListFields : row[f] = None

ResponseModel(row) ==
    [f \in MatchFields |->
        CASE f = "date" -> parse_datetime(row[f])
          [] f = "start_time" ->
                IF row[f] = None THEN None ELSE Some(parse_datetime(row[f][1]))
          [] OTHER -> row[f]]

\* The response of update_match: the row with its list columns decoded.
DecodedResponse(row) ==
    [f \in MatchFields |->
        CASE f = "date" -> parse_datetime(row[f])
          [] f = "start_time" ->
                IF row[f] = None THEN None ELSE Some(parse_datetime(row[f][1]))
          [] f \in ListFields -> DecodeList(row[f])
          [] OTHER -> row[f]]

\* `except Exception as e: raise HTTPException(status_code=500, ...)`.
\* HTTPException is an Exception, so the handler's own 400 and 404 are
\* caught here as well and leave the handler as 500.
CatchAll(raised) == 500

Failure(ms, raised) ==
    [matches |-> ms, raised |-> raised, code |-> CatchAll(raised), body |-> None]

\* ------------------------------------------------------------ create_match
\* Match(**match.dict(exclude=...), date=..., start_time=..., <lists>=...)
NewRow(m, id) ==
    [f \in MatchFields |->
        CASE f = "id" -> id
          [] f = "date" -> isoformat(m.date)
          [] f = "start_time" ->
                IF m.start_time # None
                THEN Some(isoformat(m.start_time[1])) ELSE None
          [] f \in ListFields -> EncodeList(m[f])
          [] OTHER -> m[f]]

\* The creation-time check: match_date < current_time - 5 minutes.
TooFarInPast(match_date, clock) == match_date.t < clock - BufferMinutes

\* create_match without the tournament check.
TournamentNeverMissing(tournament_id, ts) == FALSE

\* The tournament check: tournament_id given and session.get finds no row.
TournamentMissing(tournament_id, ts) ==
    tournament_id # None /\ tournament_id[1] \notin DOMAIN ts

create_match(ms, ts, clock, p) ==
    LET m == Model(p) IN
    IF ~m.date.aware THEN Failure(ms, "TypeError")
    ELSE IF TooFarInPast(m.date, clock) THEN Failure(ms, "HTTP400")
    ELSE IF TournamentMissing(m.tournament_id, ts) THEN Failure(ms, "HTTP404")
    ELSE LET row == NewRow(m, Len(ms) + 1)
             stored == Append(ms, row)
         IN  IF ResponseValid(row)
             THEN [matches |-> stored, raised |-> "none", code |-> 200,
                   body |-> Some(ResponseModel(row))]
             ELSE Failure(stored, "ValidationError")

\* The stamp condition without `db_match.start_time is None`.
DerivedStampAlways(status, db_start_time) == status = Some(InProgress)

\* ------------------------------------------------------------ update_match
\* updated_data.get("status") == "Idet" and db_match.start_time is None
DerivedStamp(status, db_start_time) ==
    status = Some(InProgress) /\ db_start_time = None

\* The two assignments to updated_data["start_time"] in the other order.
StartTimeValueStampLast(supplied, stamp, clock) ==
    IF stamp \/ supplied = None THEN Some(isoformat(UtcNow(clock)))
    ELSE Some(isoformat(supplied[1]))

\* The value left in updated_data["start_time"]: the derived stamp is
\* assigned first, a supplied start_time is assigned after it.
StartTimeValue(supplied, stamp, clock) ==
    IF supplied # None THEN Some(isoformat(supplied[1]))
    ELSE Some(isoformat(UtcNow(clock)))

updated_data(db_match, p, clock) ==
    LET m == Model(p)
        unset == DOMAIN p \ {"date", "start_time"}
        stamp == DerivedStamp(IF "status" \in unset THEN Some(p.status) ELSE None,
                              db_match.start_time)
        keys == unset \cup {"date"}
                  \cup (IF stamp \/ m.start_time # None
                        THEN {"start_time"} ELSE {})
    IN  [k \in keys |->
            CASE k = "date" -> isoformat(m.date)
              [] k = "start_time" -> StartTimeValue(m.start_time, stamp, clock)
              [] k \in ListFields -> EncodeList(p[k])
              [] OTHER -> p[k]]

\* for key, value in updated_data.items(): setattr(db_match, key, value)
SetAttrs(db_match, upd) ==
    [f \in MatchFields |-> IF f \in DOMAIN upd THEN upd[f] ELSE db_match[f]]

\* session.commit(): the UPDATE writes the columns whose value differs from
\* the value the session loaded; the other columns keep what the table holds.
Flush(current, loaded, obj) ==
    [f \in MatchFields |-> IF obj[f] # loaded[f] THEN obj[f] ELSE current[f]]

ReplaceRow(ms, id, row) == [ms EXCEPT ![id] = row]

\* db_match = session.get(Match, match_id) up to the setattr loop: the
\* object the session holds, loaded from the row and modified in memory.
LoadAndSet(ms, clock, id, p) ==
    SetAttrs(ms[id], updated_data(ms[id], p, clock))

\* session.add, session.commit, session.refresh and the decoded response.
CommitAndRespond(ms, id, loaded, obj) ==
    LET row == Flush(ms[id], loaded, obj)
    IN  [matches |-> ReplaceRow(ms, id, row), raised |-> "none",
         code |-> 200, body |-> Some(DecodedResponse(row))]

update_match(ms, clock, id, p) ==
    IF id \notin DOMAIN ms THEN Failure(ms, "HTTP404")
    ELSE CommitAndRespond(ms, id, ms[id], LoadAndSet(ms, clock, id, p))

\* ------------------------------------------------------- create_tournament
\* json.dumps([team.dict() for team in tournament.teams]) of teams without
\* an id: [{"id": null, "name": "<name>"}, ...]
DumpTeam(team) ==
    <<"{", "\"", "i", "d", "\"", ":", " ", "n", "u", "l", "l", ",", " ",
      "\"", "n", "a", "m", "e", "\"", ":", " ">> \o DumpStr(team) \o <<"}">>

RECURSIVE DumpTeams(_)
DumpTeams(teams) ==
    IF teams = <<>> THEN <<>>
    ELSE IF Len(teams) = 1 THEN DumpTeam(teams[1])
    ELSE DumpTeam(Head(teams)) \o <<",", " ">> \o DumpTeams(Tail(teams))

create_tournament(ts, t) ==
    Append(ts, [id |-> Len(ts) + 1, name |-> t.name, location |-> t.location,
                startDate |-> t.startDate, endDate |-> t.endDate,
                teams |-> <<"[">> \o DumpTeams(t.teams) \o <<"]">>])

\* ------------------------------------------------------------------- state
VARIABLES
    matches,      \* the Match table: row id -> row, in insertion order
    tournaments,  \* the Tournament table
    now,          \* the clock read by datetime.now, in minutes
    last,         \* the request handled by the last step and its response
    pending       \* update requests that have loaded their row, not committed

vars == <<matches, tournaments, now, last, pending>>

Requests == 1 .. NumRequests

EmptyFn == [x \in {} |-> x]

NoCall(op) ==
    [op |-> op, id |-> 0, payload |-> EmptyFn, raised |-> "none", code |-> 0,
     body |-> None, req |-> 0, prior |-> None]

\* prior is the start_time of the row the handler loaded (None if it loaded
\* no row).
Call(op, id, p, o, r, prior) ==
    [op |-> op, id |-> id, payload |-> p, raised |-> o.raised, code |-> o.code,
     body |-> o.body, req |-> r, prior |-> prior]

\* FastAPI's answer to a body the request model rejects; no handler runs.
RequestRejected(ms) ==
    [matches |-> ms, raised |-> "RequestValidationError", code |-> 422,
     body |-> None]

\* ------------------------------------------------------------------ inputs
Alice == <<"A", "l">>
Bob == <<"B", "o">>
Quoted == <<"\"", "\\", NonAscii>>

ListVals == {None, Some(<<>>), Some(<<Alice, Bob>>), Some(<<Quoted>>)}

Aware(t) == [t |-> t, aware |-> TRUE]
Naive(t) == [t |-> t, aware |-> FALSE]

Required(d, s, x) ==
    [team1 |-> "Lions", team2 |-> "Tigers", date |-> d, location |-> "Arena",
     status |-> s, score1 |-> x, score2 |-> 0]

AllLists(v) == [f \in ListFields |-> v]

TournamentIds == 1 .. (MaxTournaments + 1)
MatchIds == 1 .. (MaxMatches + 1)

SuppliedStart == Aware(NowInit - 3)

PartialBody == [score1 |-> 3]

\* Request bodies.  Each family varies the fields one group of handlers'
\* rules reads and fixes the others; every family holds complete bodies, and
\* the partial body {score1: 3}.
\*
\* Validation and references: the date against the clock, tournament_id.
RefPayloads ==
    {e @@ Required(d, Scheduled, 0) :
        e \in {EmptyFn} \cup {[tournament_id |-> Some(i)] : i \in TournamentIds},
        d \in {Aware(NowInit - 10), Aware(NowInit - 5), Naive(NowInit)}}
      \cup {PartialBody}

\* Timestamps: status, start_time, date.
StampPayloads ==
    {e @@ Required(d, s, 0) :
        e \in {EmptyFn, [start_time |-> Some(SuppliedStart)],
               [start_time |-> None]},
        d \in {Aware(NowInit), Aware(NowInit - 10)},
        s \in {Scheduled, InProgress}}
      \cup {PartialBody}

\* List sub-fields.
CodecPayloads ==
    {e @@ Required(Aware(NowInit), Scheduled, 0) :
        e \in {EmptyFn, AllLists(Some(<<Bob>>)), AllLists(Some(<<>>))}
                \cup {[goalScorers1 |-> v] : v \in ListVals}
                \cup {[redCardPlayers2 |-> v] : v \in ListVals}}
      \cup {PartialBody}

\* Bodies of update requests that run interleaved.
ConcPayloads ==
    {e @@ Required(Aware(NowInit), InProgress, 0) :
        e \in {EmptyFn, [start_time |-> Some(SuppliedStart)]}}

TournamentPayload ==
    [name |-> "Cup", location |-> "Arena", startDate |-> "2025-01-01",
     endDate |-> "2025-01-31", teams |-> <<Alice, Quoted>>]

\* ----------------------------------------------------------------- actions
Init ==
    /\ matches = <<>>
    /\ tournaments = <<>>
    /\ now = NowInit
    /\ last = NoCall("init")
    /\ pending = [r \in Requests |-> None]

Tick ==
    /\ now < MaxNow
    /\ now' = now + 1
    /\ last' = NoCall("tick")
    /\ UNCHANGED <<matches, tournaments, pending>>

\* POST /matches/
CreateMatch(P) ==
    \E p \in P :
        /\ Len(matches) < MaxMatches
        /\ \E o \in {IF ValidRequest(p)
                     THEN create_match(matches, tournaments, now, p)
                     ELSE RequestRejected(matches)} :
               /\ matches' = o.matches
               /\ last' = Call("create_match", 0, p, o, 0, None)
        /\ UNCHANGED <<tournaments, now, pending>>

\* PUT /matches/{match_id}, the handler run from start to end.
UpdateMatch(P) ==
    \E id \in MatchIds, p \in P :
        /\ \E o \in {IF ValidRequest(p)
                     THEN update_match(matches, now, id, p)
                     ELSE RequestRejected(matches)} :
               /\ matches' = o.matches
               /\ last' = Call("update_match", id, p, o, 0,
                               IF id \in DOMAIN matches
                               THEN matches[id].start_time ELSE None)
        /\ UNCHANGED <<tournaments, now, pending>>

\* POST /tournaments/
CreateTournament ==
    /\ Len(tournaments) < MaxTournaments
    /\ tournaments' = create_tournament(tournaments, TournamentPayload)
    /\ last' = [NoCall("create_tournament") EXCEPT !.code = 200]
    /\ UNCHANGED <<matches, now, pending>>

Next ==
    \/ Tick
    \/ CreateMatch(RefPayloads)
    \/ UpdateMatch(RefPayloads)
    \/ CreateTournament

Spec == Init /\ [][Next]_vars

NextStamp ==
    \/ Tick
    \/ CreateMatch(StampPayloads)
    \/ UpdateMatch(StampPayloads)

SpecStamp == Init /\ [][NextStamp]_vars

NextCodec ==
    \/ CreateMatch(CodecPayloads)
    \/ UpdateMatch(CodecPayloads)

SpecCodec == Init /\ [][NextCodec]_vars

\* PUT /matches/{match_id} run by several workers against the one table:
\* a request first loads its row and computes its update (UpdateBegin), and
\* commits in a later step (UpdateCommit); other requests run in between.
UpdateBegin(P) ==
    \E r \in Requests, id \in MatchIds, p \in P :
        /\ pending[r] = None
        /\ ValidRequest(p)
        /\ IF id \notin DOMAIN matches
           THEN /\ last' = Call("update_match", id, p,
                                Failure(matches, "HTTP404"), r, None)
                /\ UNCHANGED pending
           ELSE /\ pending' =
                     [pending EXCEPT ![r] =
                         Some([id |-> id, payload |-> p, loaded |-> matches[id],
                               obj |-> LoadAndSet(matches, now, id, p)])]
                /\ last' = [NoCall("update_begin") EXCEPT
                                !.id = id, !.payload = p, !.req = r]
        /\ UNCHANGED <<matches, tournaments, now>>

UpdateCommit ==
    \E r \in Requests :
        /\ pending[r] # None
        /\ \E u \in {pending[r][1]} :
             \E o \in {CommitAndRespond(matches, u.id, u.loaded, u.obj)} :
               /\ matches' = o.matches
               /\ last' = Call("update_match", u.id, u.payload, o, r,
                               u.loaded.start_time)
        /\ pending' = [pending EXCEPT ![r] = None]
        /\ UNCHANGED <<tournaments, now>>

\* The table after one create_match at the clock's first reading: the match
\* the interleaved updates are about.
InitConc ==
    /\ matches = create_match(<<>>, <<>>, NowInit,
                              Required(Aware(NowInit), Scheduled, 0)).matches
    /\ tournaments = <<>>
    /\ now = NowInit
    /\ last = NoCall("init")
    /\ pending = [r \in Requests |-> None]

NextConc ==
    \/ Tick
    \/ UpdateBegin(ConcPayloads)
    \/ UpdateCommit

SpecConc == InitConc /\ [][NextConc]_vars

\* ------------------------------------------------------------------ claims
IsCreate == last.op = "create_match"
IsUpdate == last.op = "update_match"

\* The last step inserted a row: create_match got as far as its commit.
Inserted == IsCreate /\ last.raised \in {"none", "ValidationError"}

NoStartTime(p) == Model(p).start_time = None

\* C1: a valid create payload whose date (given with its UTC offset) is at
\* or after now - 5 minutes and whose tournament_id is absent or exists is answered 200, and each list
\* sub-field of the returned record equals the input list (an empty input
\* list is taken as returned when the record holds null, the codec's
\* normal form of it).
C1_CreateReturnsInputLists ==
    (/\ IsCreate
     /\ ValidRequest(last.payload)
     /\ Model(last.payload).date.aware
     /\ ~TooFarInPast(Model(last.payload).date, now)
     /\ ~TournamentMissing(Model(last.payload).tournament_id, tournaments))
    => /\ last.code = 200
       /\ \A f \in ListFields :
             last.body[1][f] = IF Truthy(Model(last.payload)[f])
                               THEN Model(last.payload)[f] ELSE None

\* C2: a create whose date (given with its UTC offset) is earlier than
\* now - 5 minutes is answered 400.
C2_BackdatedCreateIs400 ==
    (/\ IsCreate
     /\ ValidRequest(last.payload)
     /\ Model(last.payload).date.aware
     /\ TooFarInPast(Model(last.payload).date, now))
    => last.code = 400

\* C3: a create that passes the date check and names a tournament that does
\* not exist, and an update that names a match that does not exist, are
\* answered 404.
C3_UnknownEntityIs404 ==
    /\ (/\ IsCreate
        /\ ValidRequest(last.payload)
        /\ Model(last.payload).date.aware
        /\ ~TooFarInPast(Model(last.payload).date, now)
        /\ TournamentMissing(Model(last.payload).tournament_id, tournaments))
       => last.code = 404
    /\ (/\ IsUpdate
        /\ ValidRequest(last.payload)
        /\ last.id \notin DOMAIN matches)
       => last.code = 404

\* C4: an update that sets status to the in-progress label and supplies no
\* start_time sets start_time to the current time when the stored start_time
\* is unset, and leaves the stored start_time as it is when it is set.
C4_StampOnlyWhenUnset ==
    (/\ IsUpdate
     /\ last.code = 200
     /\ last.payload.status = InProgress
     /\ NoStartTime(last.payload))
    => matches[last.id].start_time =
          IF last.prior = None THEN Some(isoformat(UtcNow(now))) ELSE last.prior

\* C4 witness: a second in-progress update, at a later minute, of a match
\* that the first one stamped; the stamp of the first is still stored.
C4_Witness ==
    /\ IsUpdate
    /\ last.code = 200
    /\ last.payload.status = InProgress
    /\ NoStartTime(last.payload)
    /\ now > NowInit
    /\ last.prior = Some(isoformat(UtcNow(NowInit)))
    /\ matches[last.id].start_time = last.prior

\* C5: an update of an existing match with the body {score1: 3} is accepted,
\* sets score1 to 3 and changes no other field of that match and no other
\* match.
C5_PartialUpdateApplied ==
    [][(/\ last'.op = "update_match"
        /\ last'.payload = PartialBody
        /\ last'.id \in DOMAIN matches)
       => /\ last'.code = 200
          /\ matches'[last'.id].score1 = 3
          /\ \A f \in MatchFields \ {"score1"} :
                matches'[last'.id][f] = matches[last'.id][f]
          /\ \A i \in DOMAIN matches \ {last'.id} : matches'[i] = matches[i]
          /\ DOMAIN matches' = DOMAIN matches]_vars

\* C6: a create or update that is answered with an error leaves the Match
\* and Tournament tables as they were.
C6_ErrorLeavesTables ==
    [][(/\ last'.op \in {"create_match", "update_match"}
        /\ last'.code \in {400, 404, 500})
       => /\ matches' = matches
          /\ tournaments' = tournaments]_vars

\* C7: every stored list column is null or the JSON text of a non-empty list
\* (text that decodes to a non-empty list and encodes back to itself, never
\* "[]"); and the column a create or an update has just written decodes to
\* None for the input None or [], and to the input list otherwise.
C7_StoredListsNormalised ==
    /\ \A i \in DOMAIN matches : \A f \in ListFields :
          \/ matches[i][f] = None
          \/ /\ json_loads(matches[i][f][1]) # <<>>
             /\ json_dumps(json_loads(matches[i][f][1])) = matches[i][f][1]
    /\ Inserted =>
          \A f \in ListFields :
              DecodeList(matches[Len(matches)][f]) =
                  IF Truthy(Model(last.payload)[f])
                  THEN Model(last.payload)[f] ELSE None
    /\ (IsUpdate /\ last.code = 200) =>
          \A f \in ListFields \cap DOMAIN last.payload :
              DecodeList(matches[last.id][f]) =
                  IF Truthy(last.payload[f]) THEN last.payload[f] ELSE None

\* C7 witness: an update has just written [] over a stored non-empty list
\* and the column is null, while another column of the row still holds an
\* encoded list and a third one whose characters need escaping.
C7_Witness ==
    /\ IsUpdate
    /\ last.code = 200
    /\ "goalScorers1" \in DOMAIN last.payload
    /\ last.payload.goalScorers1 = Some(<<>>)
    /\ matches[last.id].goalScorers1 = None
    /\ matches[last.id].goalScorers2 = Some(json_dumps(<<Bob>>))
    /\ matches[last.id].redCardPlayers2 = Some(json_dumps(<<Quoted>>))

\* C8: after an update that supplies a start_time value the stored
\* start_time is that value, also when the update sets the in-progress
\* status on a match whose start_time was unset; the stored date is the
\* date the update supplied.
C8_SuppliedTimesStored ==
    (IsUpdate /\ last.code = 200)
    => /\ ~NoStartTime(last.payload) =>
             matches[last.id].start_time =
                 Some(isoformat(last.payload.start_time[1]))
       /\ matches[last.id].date = isoformat(last.payload.date)

\* C8 witness: the in-progress update of a match with no start_time that
\* supplies a start_time other than the current time.
C8_Witness ==
    /\ IsUpdate
    /\ last.code = 200
    /\ last.payload.status = InProgress
    /\ last.prior = None
    /\ ~NoStartTime(last.payload)
    /\ last.payload.start_time[1] # UtcNow(now)
    /\ matches[last.id].start_time = Some(isoformat(last.payload.start_time[1]))

\* The step is the commit of request r, an in-progress update without a
\* start_time.
StampingCommit(r) ==
    /\ pending[r] # None
    /\ pending'[r] = None
    /\ pending[r][1].payload.status = InProgress
    /\ NoStartTime(pending[r][1].payload)

\* The column holds a derived stamp (a supplied start_time is never one of
\* the clock's readings).
IsStamp(col) == col \in {Some(isoformat(UtcNow(t))) : t \in NowInit .. MaxNow}

\* C9: once a stamped start_time is committed for a match, the commit of an
\* interleaved in-progress update that supplies no start_time does not
\* replace it.
C9_NoRestampWhenInterleaved ==
    [][\A r \in Requests :
          (StampingCommit(r) /\ IsStamp(matches[pending[r][1].id].start_time))
          => matches'[pending[r][1].id].start_time =
                 matches[pending[r][1].id].start_time]_vars

\* C9 as amended: the commit of an in-progress update that supplies no
\* start_time leaves the stored start_time as it is when the request loaded
\* the row with start_time set, and stores the request's own stamp when the
\* request loaded the row with start_time unset (the last commit wins).
C9_StampFollowsLoadedRow ==
    [][\A r \in Requests :
          StampingCommit(r)
          => matches'[pending[r][1].id].start_time =
                 IF pending[r][1].loaded.start_time = None
                 THEN pending[r][1].obj.start_time
                 ELSE matches[pending[r][1].id].start_time]_vars

\* C9 witness: a request that loaded the row after another request's stamp
\* was committed has committed at a later minute, while a third update is
\* still in flight, and that stamp is stored.
C9_Witness ==
    /\ IsUpdate
    /\ last.req # 0
    /\ \E r \in Requests : pending[r] # None
    /\ last.code = 200
    /\ last.payload.status = InProgress
    /\ NoStartTime(last.payload)
    /\ now > NowInit
    /\ last.prior = Some(isoformat(UtcNow(NowInit)))
    /\ matches[last.id].start_time = last.prior

\* C10: every stored match whose tournament_id is set references a stored
\* tournament.
C10_NoDanglingTournament ==
    \A i \in DOMAIN matches :
        matches[i].tournament_id # None
        => matches[i].tournament_id[1] \in DOMAIN tournaments

\* C10 as amended: the row a create has just inserted references a stored
\* tournament if its tournament_id is set.
C10_CreatedRowReferencesTournament ==
    Inserted =>
        (matches[Len(matches)].tournament_id # None
         => matches[Len(matches)].tournament_id[1] \in DOMAIN tournaments)

\* C10 witness: a create with a tournament_id has inserted its row.
C10_Witness ==
    /\ Inserted
    /\ last.code = 200
    /\ matches[Len(matches)].tournament_id # None
    /\ matches[Len(matches)].tournament_id = last.payload.tournament_id

====
